---------------------------- MODULE Spec2Model ----------------------------
(***************************************************************************)
(* Media fetch-and-relay pipeline of orchids-apis: the TikTok mp3/mp4      *)
(* downloader, the TikTok audio-only downloader, the YouTube downloader,   *)
(* the YouTube result lookup and the image generator.  One request is      *)
(* handled at a time; storage, datastore rows and statistics counters      *)
(* persist between requests.  Every await of a handler whose outcome the   *)
(* environment decides is a step; the outcome is drawn from a small set.   *)
(***************************************************************************)
EXTENDS Integers, Sequences, FiniteSets, TLC

\* ------------------------------------------------------------------ bounds
\* Number of state-changing requests served in one behaviour.
MaxRequests == 2

\* Size of the space crypto.randomBytes(4) draws image identifiers from,
\* scaled down so that two requests can draw the same identifier.
HexIdSpace == 2

\* ------------------------------------------------------------- JS values
\* null / undefined of the source, for string-valued slots.
Null == "null"
\* A path slot holding null.
NoPath == <<>>
\* JavaScript truthiness of a string-or-null value.
Truthy(x) == x # Null /\ x # ""
\* JavaScript `a || b`.
Or(a, b) == IF Truthy(a) THEN a ELSE b

\* A query-string value is a sequence of characters; searchParams.get gives
\* null for an absent parameter and the empty string for an empty one.
NullStr == <<"null">>
EmptyStr == <<>>
\* Variant: the parameter is compared with null instead of tested for falsiness.
Present_NullOnly(s) == s # NullStr
\* `!param` is false: the parameter is neither null nor empty.
Present(s) == s # NullStr /\ s # EmptyStr
TikTokUrl == <<"h", "t", "t", "p", "s", ":", "/", "/", "v", "t", ".", "t", "i", "k", "t", "o", "k", ".", "c", "o", "m", "/", "Z", "S", "1", "/">>

\* Variant: the extension is fixed instead of following the kind.
FileName_FixedExt(id, suffix) == <<id, ".mp4">>
\* `${id}.${ext}` and `${id}_thumb.jpg`: a file name is the identifier
\* followed by its suffix.
FileName(id, suffix) == <<id, suffix>>

\* ------------------------------------------------------------ environment
\* Outcome of a media / thumbnail fetch: 2xx, non-2xx, or a rejected promise.
FetchOutcomes == {"ok", "notok", "neterr"}
\* Outcome of a storage upload / datastore insert: success, a returned
\* { error }, or a rejected promise.
StoreOutcomes == {"ok", "error", "throw"}
\* Outcome of incrementStat / logApiRequest: resolves or rejects.
StatOutcomes == {"ok", "throw"}

\* Responses of the primary extractor (tikwm).  kind: the transport result;
\* the remaining fields are the JSON body when kind = "json".
TikwmUrls == {
  [hdplay |-> "hdplay", play |-> "play", music |-> "music", music_info_play |-> Null],
  [hdplay |-> Null, play |-> "play", music |-> Null, music_info_play |-> "music_info"],
  [hdplay |-> "hdplay", play |-> Null, music |-> Null, music_info_play |-> Null] }
TikwmMeta == {
  [title |-> "Title", nickname |-> "Nick", cover |-> "cover", origin_cover |-> "origin_cover"],
  [title |-> Null, nickname |-> Null, cover |-> Null, origin_cover |-> "origin_cover"],
  [title |-> "", nickname |-> Null, cover |-> Null, origin_cover |-> Null] }
TikwmFailures == {
  [kind |-> k, code |-> 0, hasData |-> FALSE, hdplay |-> Null, play |-> Null,
   music |-> Null, music_info_play |-> Null, title |-> Null, nickname |-> Null,
   cover |-> Null, origin_cover |-> Null] : k \in {"neterr", "notok", "badjson", "json"} }
  \cup
  {[kind |-> "json", code |-> -1, hasData |-> TRUE, hdplay |-> "hdplay", play |-> "play",
    music |-> "music", music_info_play |-> Null, title |-> "Title", nickname |-> "Nick",
    cover |-> "cover", origin_cover |-> Null],
   [kind |-> "json", code |-> 0, hasData |-> TRUE, hdplay |-> "", play |-> Null,
    music |-> "music", music_info_play |-> Null, title |-> "Title", nickname |-> "Nick",
    cover |-> "cover", origin_cover |-> Null]}
TikwmResponses ==
  TikwmFailures \cup
  {[kind |-> "json", code |-> 0, hasData |-> TRUE, hdplay |-> u.hdplay, play |-> u.play,
    music |-> u.music, music_info_play |-> u.music_info_play, title |-> m.title,
    nickname |-> m.nickname, cover |-> m.cover, origin_cover |-> m.origin_cover]
     : u \in TikwmUrls, m \in TikwmMeta}

\* Responses of relay instance i (cobalt).  The url a relay instance returns
\* is tagged with the instance so that its origin stays visible downstream.
CobaltInstances == 2
CobaltUrl(i) == IF i = 1 THEN "cobalt1" ELSE "cobalt2"
CobaltResponses(i) ==
  {[kind |-> k, status |-> Null, url |-> Null] : k \in {"neterr", "notok", "badjson"}}
  \cup
  {[kind |-> "json", status |-> s, url |-> u]
     : s \in {"error", "tunnel", "redirect", "stream", "picker"},
       u \in {Null, CobaltUrl(i)}}

\* ------------------------------------------------------------------ state
VARIABLES
  route,    \* the endpoint serving the current request
  pc,       \* position of the handler
  req,      \* the request's query parameters
  loc,      \* the handler's local variables
  hist,     \* the external calls the current request has made, in order
  resp,     \* the response sent for the current request
  storage,  \* objects in the storage buckets: [bucket, path]
  db,       \* rows of the datastore tables
  stats,    \* the statistics counters
  stats0,   \* the counters as they were when the current request arrived
  nreq      \* requests accepted so far; also the source of fresh identifiers

vars == <<route, pc, req, loc, hist, resp, storage, db, stats, stats0, nreq>>

NoReq == [url |-> NullStr, type |-> Null, flag |-> Null, id |-> 0]
Request(url, type, flag, id) == [url |-> url, type |-> type, flag |-> flag, id |-> id]
InitLoc ==
  [videoUrl |-> Null, musicUrl |-> Null, title |-> Null, author |-> Null,
   thumbnailUrl |-> Null, buffer |-> Null, id |-> 0,
   mp4FileName |-> NoPath, mp3FileName |-> NoPath, thumbnailPath |-> NoPath,
   err |-> Null,
   downloadUrl |-> Null, dl |-> "none", info |-> "none", videoId |-> <<>>,
   thumbnail |-> <<>>]
NoResp ==
  [kind |-> "none", status |-> 0, ok |-> FALSE, error |-> Null, id |-> 0,
   keys |-> {}, bytes |-> Null, code |-> 0]

Init ==
  /\ route = "none"
  /\ pc = "idle"
  /\ req = NoReq
  /\ loc = InitLoc
  /\ hist = <<>>
  /\ resp = NoResp
  /\ storage = {}
  /\ db = {}
  /\ stats = [total_hits |-> 0, total_success |-> 0, total_errors |-> 0, total_requests |-> 0]
  /\ stats0 = stats
  /\ nreq = 0

\* ------------------------------------------------------------- responses
\* prettyJson({ status: false, error }, code)
ErrorJson(code, msg) ==
  [kind |-> "json", status |-> code, ok |-> FALSE, error |-> msg, id |-> 0,
   keys |-> {"status", "error"}, bytes |-> Null, code |-> 0]
\* prettyJson({ status: true, result: {...} }): keys are the fields of result.
SuccessJson(id, resultKeys) ==
  [kind |-> "json", status |-> 200, ok |-> TRUE, error |-> Null, id |-> id,
   keys |-> resultKeys, bytes |-> Null, code |-> 0]
\* new NextResponse(buffer, { status: 200, headers })
BytesResponse(id, buffer) ==
  [kind |-> "bytes", status |-> 200, ok |-> TRUE, error |-> Null, id |-> id,
   keys |-> {}, bytes |-> buffer, code |-> 0]
\* A handler whose promise rejects: the framework answers 500 with its own body.
UnhandledResponse ==
  [kind |-> "unhandled", status |-> 500, ok |-> FALSE, error |-> Null, id |-> 0,
   keys |-> {}, bytes |-> Null, code |-> 0]

Event(step, res) == [step |-> step, res |-> res]

\* incrementStat(name): one more on the named counter.
incrementStat(name) == [stats EXCEPT ![name] = @ + 1]

\* No request is being served.
Idle == pc = "idle"

\* The handler has returned its response: its locals are gone and the next
\* request can be taken.
Return ==
  /\ pc = "done"
  /\ pc' = "idle"
  /\ route' = "none"
  /\ req' = NoReq
  /\ loc' = InitLoc
  /\ hist' = <<>>
  /\ resp' = NoResp
  /\ stats0' = stats
  /\ UNCHANGED <<storage, db, stats, nreq>>

\* Variant: the catch block does not count the error.
CatchBlock_NoCount(o1, o2) ==
  /\ pc = "catch"
  /\ pc' = "done"
  /\ resp' = IF o1 = "ok" /\ o2 = "ok" THEN ErrorJson(500, loc.err) ELSE UnhandledResponse
  /\ hist' = Append(hist, Event("respond", "500"))
  /\ UNCHANGED <<route, req, loc, storage, db, stats, stats0, nreq>>
\* The catch block shared in shape by the three downloader routes:
\* incrementStat("total_errors"), logApiRequest(500), the 500 envelope.
CatchBlock(o1, o2) ==
  /\ pc = "catch"
  /\ pc' = "done"
  /\ stats' = IF o1 = "ok" THEN incrementStat("total_errors") ELSE stats
  /\ resp' = IF o1 = "ok" /\ o2 = "ok" THEN ErrorJson(500, loc.err) ELSE UnhandledResponse
  /\ hist' = Append(hist, Event("respond", "500"))
  /\ UNCHANGED <<route, req, loc, storage, db, stats0, nreq>>

\* ------------------------------------------- TikTok mp3/mp4 downloader
\* tryTikwm on response r: null, or the TikTokData record.
NoTikTokData ==
  [found |-> FALSE, videoUrl |-> Null, musicUrl |-> Null, title |-> Null,
   author |-> Null, thumbnailUrl |-> Null]
tryTikwm(r) ==
  IF r.kind \in {"neterr", "badjson"} THEN NoTikTokData
  ELSE IF r.kind = "notok" THEN NoTikTokData
  ELSE IF r.code # 0 \/ ~r.hasData THEN NoTikTokData
  ELSE LET videoUrl == Or(r.hdplay, r.play) IN
    IF ~Truthy(videoUrl) THEN NoTikTokData
    ELSE [found |-> TRUE,
          videoUrl |-> videoUrl,
          musicUrl |-> Or(Or(r.music, r.music_info_play), Null),
          title |-> Or(r.title, "TikTok Video"),
          author |-> Or(r.nickname, "Unknown"),
          thumbnailUrl |-> Or(Or(r.cover, r.origin_cover), Null)]

\* One iteration of tryCobalt's loop on response r: the url returned, or Null
\* when the loop continues.
tryCobaltStep(r) ==
  IF r.kind \in {"neterr", "badjson"} THEN Null
  ELSE IF r.kind = "notok" THEN Null
  ELSE IF r.status = "error" THEN Null
  ELSE IF Truthy(r.url) THEN r.url
  ELSE Null

\* Variant: the checks after provider resolution are missing.
TT_ResolveError_NoCheck(type, videoUrl, musicUrl) == Null
\* The checks after provider resolution: the error thrown, or Null.
TT_ResolveError(type, videoUrl, musicUrl) ==
  IF type = "mp4" /\ ~Truthy(videoUrl) THEN "No video URL found from any provider"
  ELSE IF type = "mp3" /\ ~Truthy(musicUrl) THEN "No music URL found from any provider"
  ELSE Null

\* Variant: inline delivery only on an explicit auto_show=true.
autoShow_OptIn(a) == a = "true"
\* searchParams.get("auto_show") !== "false"
autoShow(a) == a # "false"

TT_AfterResolve(l) ==
  LET e == TT_ResolveError(req.type, l.videoUrl, l.musicUrl) IN
  /\ loc' = [l EXCEPT !.err = e]
  /\ pc' = IF e # Null THEN "catch" ELSE "download"

TT_Start(url, type, auto_show) ==
  /\ Idle
  /\ nreq < MaxRequests
  /\ nreq' = nreq + 1
  /\ route' = "tt"
  /\ req' = Request(url, type, auto_show, 0)
  /\ loc' = InitLoc
  /\ hist' = <<>>
  /\ stats0' = stats
  /\ IF ~Present(url)
       THEN /\ resp' = ErrorJson(400, "Parameter 'tiktokvid_url' is required")
            /\ pc' = "done"
       ELSE IF ~Truthy(type) \/ (type # "mp3" /\ type # "mp4")
       THEN /\ resp' = ErrorJson(400, "Parameter 'type' is required and must be 'mp3' or 'mp4'")
            /\ pc' = "done"
       ELSE /\ resp' = NoResp
            /\ pc' = "hits"
  /\ UNCHANGED <<storage, db, stats>>

TT_Hits(o) ==
  /\ route = "tt" /\ pc = "hits"
  /\ IF o = "ok"
       THEN /\ stats' = incrementStat("total_hits")
            /\ pc' = "tikwm"
            /\ loc' = [loc EXCEPT !.title = "TikTok Video", !.author = "Unknown"]
            /\ UNCHANGED resp
       ELSE /\ resp' = UnhandledResponse
            /\ pc' = "done"
            /\ UNCHANGED <<stats, loc>>
  /\ UNCHANGED <<route, req, hist, storage, db, stats0, nreq>>

TT_Tikwm(r) ==
  /\ route = "tt" /\ pc = "tikwm"
  /\ LET t == tryTikwm(r) IN
     /\ hist' = Append(hist, Event("tikwm", IF t.found THEN "found" ELSE "null"))
     /\ IF t.found
          THEN TT_AfterResolve([loc EXCEPT !.videoUrl = t.videoUrl, !.musicUrl = t.musicUrl,
                                           !.title = t.title, !.author = t.author,
                                           !.thumbnailUrl = t.thumbnailUrl])
          ELSE /\ pc' = "cobalt1"
               /\ UNCHANGED loc
  /\ UNCHANGED <<route, req, resp, storage, db, stats, stats0, nreq>>

TT_Cobalt(i, r) ==
  /\ route = "tt" /\ pc = (IF i = 1 THEN "cobalt1" ELSE "cobalt2")
  /\ LET u == tryCobaltStep(r) IN
     /\ hist' = Append(hist, Event(CobaltUrl(i), IF u # Null THEN "found" ELSE "null"))
     /\ IF u # Null
          THEN TT_AfterResolve(IF req.type = "mp3" THEN [loc EXCEPT !.musicUrl = u]
                                                   ELSE [loc EXCEPT !.videoUrl = u])
          ELSE IF i < CobaltInstances
          THEN pc' = "cobalt2" /\ UNCHANGED loc
          ELSE TT_AfterResolve(loc)
  /\ UNCHANGED <<route, req, resp, storage, db, stats, stats0, nreq>>

\* Media fetch of the requested kind, then crypto.randomUUID() and the file names.
TT_Download(o) ==
  /\ route = "tt" /\ pc = "download"
  /\ LET url == IF req.type = "mp4" THEN loc.videoUrl ELSE loc.musicUrl IN
     /\ hist' = Append(hist, Event("download", o))
     /\ IF o = "ok"
          THEN /\ loc' = [loc EXCEPT !.buffer = url, !.id = nreq,
                            !.mp4FileName = IF req.type = "mp4" THEN FileName(nreq, ".mp4") ELSE NoPath,
                            !.mp3FileName = IF req.type = "mp3" THEN FileName(nreq, ".mp3") ELSE NoPath]
               /\ pc' = "upload"
          ELSE /\ loc' = [loc EXCEPT !.err =
                            IF o = "neterr" THEN "fetch failed"
                            ELSE IF req.type = "mp4" THEN "Failed to fetch video file"
                            ELSE "Failed to fetch music file"]
               /\ pc' = "catch"
  /\ UNCHANGED <<route, req, resp, storage, db, stats, stats0, nreq>>

\* Upload of the primary media to bucket tiktok-downloads.
TT_Upload(o) ==
  /\ route = "tt" /\ pc = "upload"
  /\ LET name == IF req.type = "mp4" THEN loc.mp4FileName ELSE loc.mp3FileName IN
     /\ hist' = Append(hist, Event("upload", o))
     /\ storage' = IF o = "ok" THEN storage \cup {[bucket |-> "tiktok-downloads", path |-> name]}
                   ELSE storage
     /\ IF o = "ok"
          THEN /\ pc' = IF Truthy(loc.thumbnailUrl) THEN "thumbfetch" ELSE "insert"
               /\ UNCHANGED loc
          ELSE /\ pc' = "catch"
               /\ loc' = [loc EXCEPT !.err =
                            IF o = "throw" THEN "upload rejected"
                            ELSE IF req.type = "mp4" THEN "Failed to upload video to storage"
                            ELSE "Failed to upload music to storage"]
  /\ UNCHANGED <<route, req, resp, db, stats, stats0, nreq>>

\* Variant: the thumbnail fetch is outside any try block.
TT_ThumbFetch_Uncaught(o) ==
  /\ route = "tt" /\ pc = "thumbfetch"
  /\ hist' = Append(hist, Event("thumbfetch", o))
  /\ pc' = IF o = "ok" THEN "thumbupload" ELSE IF o = "neterr" THEN "catch" ELSE "insert"
  /\ UNCHANGED <<route, req, loc, resp, storage, db, stats, stats0, nreq>>
\* fetch(thumbnailUrl) inside the thumbnail try block.
TT_ThumbFetch(o) ==
  /\ route = "tt" /\ pc = "thumbfetch"
  /\ hist' = Append(hist, Event("thumbfetch", o))
  /\ pc' = IF o = "ok" THEN "thumbupload" ELSE "insert"
  /\ UNCHANGED <<route, req, loc, resp, storage, db, stats, stats0, nreq>>

\* Upload of the thumbnail; the returned { error } is not inspected.
TT_ThumbUpload(o) ==
  /\ route = "tt" /\ pc = "thumbupload"
  /\ LET thumbFileName == FileName(loc.id, "_thumb.jpg") IN
     /\ hist' = Append(hist, Event("thumbupload", o))
     /\ storage' = IF o = "ok"
                     THEN storage \cup {[bucket |-> "tiktok-downloads", path |-> thumbFileName]}
                     ELSE storage
     /\ loc' = IF o = "throw" THEN loc ELSE [loc EXCEPT !.thumbnailPath = thumbFileName]
  /\ pc' = "insert"
  /\ UNCHANGED <<route, req, resp, db, stats, stats0, nreq>>

\* A datastore row; columns a table does not have are Null / NoPath.
Row(table, id, url, mp4, mp3, thumb, image, title, author, thumbUrl, type) ==
  [table |-> table, id |-> id, url |-> url, mp4_path |-> mp4, mp3_path |-> mp3,
   thumbnail_path |-> thumb, image_path |-> image, title |-> title, author |-> author,
   thumbnail_url |-> thumbUrl, type |-> type, prompt |-> NullStr]

\* A url-or-null local as a column value.
UrlColumn(u) == IF u = Null THEN NullStr ELSE <<u>>

\* insert(row) under outcome o: a second row with the same primary key is
\* refused by the datastore with an error.
InsertOutcome(row, o) ==
  IF o = "ok" /\ (\E x \in db : x.table = row.table /\ x.id = row.id) THEN "error" ELSE o
Insert(row, o) == IF InsertOutcome(row, o) = "ok" THEN db \cup {row} ELSE db

\* Insert into tiktok_downloads; dbError is only logged.
TT_Insert(o) ==
  /\ route = "tt" /\ pc = "insert"
  /\ LET row == Row("tiktok_downloads", loc.id, req.url, loc.mp4FileName, loc.mp3FileName,
                    loc.thumbnailPath, NoPath, loc.title, loc.author,
                    UrlColumn(loc.thumbnailUrl), Null) IN
     /\ hist' = Append(hist, Event("insert", InsertOutcome(row, o)))
     /\ db' = Insert(row, o)
  /\ IF o = "throw"
       THEN pc' = "catch" /\ loc' = [loc EXCEPT !.err = "insert rejected"]
       ELSE pc' = "finish" /\ UNCHANGED loc
  /\ UNCHANGED <<route, req, resp, storage, stats, stats0, nreq>>

\* incrementStat("total_success"), logApiRequest(200), then the response.
TT_Finish(o1, o2) ==
  /\ route = "tt" /\ pc = "finish"
  /\ stats' = IF o1 = "ok" THEN incrementStat("total_success") ELSE stats
  /\ IF o1 = "ok" /\ o2 = "ok"
       THEN /\ pc' = "done"
            /\ hist' = Append(hist, Event("respond", "200"))
            /\ UNCHANGED loc
            /\ resp' =
                 IF autoShow(req.flag) /\ req.type = "mp4" /\ loc.buffer # Null
                   THEN BytesResponse(loc.id, loc.buffer)
                 ELSE IF req.type = "mp3"
                   THEN SuccessJson(loc.id, {"id", "tiktok_url", "title", "author",
                                             "thumbnail", "type", "result_url"})
                 ELSE SuccessJson(loc.id, {"id", "tiktok_url", "title", "author",
                                           "thumbnail", "video_url"})
       ELSE /\ pc' = "catch"
            /\ loc' = [loc EXCEPT !.err = IF o1 = "ok" THEN "logApiRequest rejected"
                                          ELSE "incrementStat rejected"]
            /\ UNCHANGED <<hist, resp>>
  /\ UNCHANGED <<route, req, storage, db, stats0, nreq>>

TT_Catch(o1, o2) == route = "tt" /\ CatchBlock(o1, o2)

\* ------------------------------------------- TikTok audio-only downloader
\* tryTikwm of the audio-only route on response r: the music url, or Null.
tryTikwmMusic(r) ==
  IF r.kind \in {"neterr", "badjson"} THEN Null
  ELSE IF r.kind = "notok" THEN Null
  ELSE IF r.code # 0 \/ ~r.hasData THEN Null
  ELSE LET musicUrl == Or(r.music, r.music_info_play) IN
    IF ~Truthy(musicUrl) THEN Null ELSE musicUrl

\* searchParams.get("instant-appearance") === "true"
instantAppearance(a) == a = "true"

MP3_Start(url, instant) ==
  /\ Idle
  /\ nreq < MaxRequests
  /\ nreq' = nreq + 1
  /\ route' = "mp3"
  /\ req' = Request(url, Null, instant, 0)
  /\ loc' = InitLoc
  /\ hist' = <<>>
  /\ stats0' = stats
  /\ IF ~Present(url)
       THEN /\ resp' = ErrorJson(400, "Parameter 'tiktokvid_url' is required")
            /\ pc' = "done"
       ELSE /\ resp' = NoResp
            /\ pc' = "hits"
  /\ UNCHANGED <<storage, db, stats>>

MP3_Hits(o) ==
  /\ route = "mp3" /\ pc = "hits"
  /\ IF o = "ok"
       THEN /\ stats' = incrementStat("total_hits")
            /\ pc' = "tikwm"
            /\ UNCHANGED resp
       ELSE /\ resp' = UnhandledResponse
            /\ pc' = "done"
            /\ UNCHANGED stats
  /\ UNCHANGED <<route, req, loc, hist, storage, db, stats0, nreq>>

\* The check after the provider chain of the audio-only route.
MP3_AfterResolve(u) ==
  IF u = Null
    THEN /\ pc' = "catch"
         /\ loc' = [loc EXCEPT !.err = "All providers failed to get music URL"]
    ELSE /\ pc' = "download"
         /\ loc' = [loc EXCEPT !.musicUrl = u]

\* Variant: the relay is queried even when the primary extractor succeeded.
MP3_Tikwm_AlwaysFallBack(r) ==
  /\ route = "mp3" /\ pc = "tikwm"
  /\ LET u == tryTikwmMusic(r) IN
     /\ hist' = Append(hist, Event("tikwm", IF u # Null THEN "found" ELSE "null"))
     /\ pc' = "cobalt1"
     /\ loc' = [loc EXCEPT !.musicUrl = u]
  /\ UNCHANGED <<route, req, resp, storage, db, stats, stats0, nreq>>

MP3_Tikwm(r) ==
  /\ route = "mp3" /\ pc = "tikwm"
  /\ LET u == tryTikwmMusic(r) IN
     /\ hist' = Append(hist, Event("tikwm", IF u # Null THEN "found" ELSE "null"))
     /\ IF u # Null THEN MP3_AfterResolve(u) ELSE pc' = "cobalt1" /\ UNCHANGED loc
  /\ UNCHANGED <<route, req, resp, storage, db, stats, stats0, nreq>>

MP3_Cobalt(i, r) ==
  /\ route = "mp3" /\ pc = (IF i = 1 THEN "cobalt1" ELSE "cobalt2")
  /\ LET u == tryCobaltStep(r) IN
     /\ hist' = Append(hist, Event(CobaltUrl(i), IF u # Null THEN "found" ELSE "null"))
     /\ IF u = Null /\ i < CobaltInstances
          THEN pc' = "cobalt2" /\ UNCHANGED loc
          ELSE MP3_AfterResolve(u)
  /\ UNCHANGED <<route, req, resp, storage, db, stats, stats0, nreq>>

MP3_Download(o) ==
  /\ route = "mp3" /\ pc = "download"
  /\ hist' = Append(hist, Event("download", o))
  /\ IF o = "ok"
       THEN /\ loc' = [loc EXCEPT !.buffer = loc.musicUrl, !.id = nreq,
                                  !.mp3FileName = FileName(nreq, ".mp3")]
            /\ pc' = "upload"
       ELSE /\ loc' = [loc EXCEPT !.err = IF o = "neterr" THEN "fetch failed"
                                          ELSE "Failed to fetch music file from provider"]
            /\ pc' = "catch"
  /\ UNCHANGED <<route, req, resp, storage, db, stats, stats0, nreq>>

\* Variant: the { error } the upload returns is not inspected.
MP3_Upload_ErrorIgnored(o) ==
  /\ route = "mp3" /\ pc = "upload"
  /\ hist' = Append(hist, Event("upload", o))
  /\ storage' = IF o = "ok"
                  THEN storage \cup {[bucket |-> "tiktok-mp3s", path |-> loc.mp3FileName]}
                  ELSE storage
  /\ IF o # "throw"
       THEN pc' = "insert" /\ UNCHANGED loc
       ELSE /\ pc' = "catch"
            /\ loc' = [loc EXCEPT !.err = IF o = "throw" THEN "upload rejected"
                                          ELSE "Failed to upload to storage"]
  /\ UNCHANGED <<route, req, resp, db, stats, stats0, nreq>>
MP3_Upload(o) ==
  /\ route = "mp3" /\ pc = "upload"
  /\ hist' = Append(hist, Event("upload", o))
  /\ storage' = IF o = "ok"
                  THEN storage \cup {[bucket |-> "tiktok-mp3s", path |-> loc.mp3FileName]}
                  ELSE storage
  /\ IF o = "ok"
       THEN pc' = "insert" /\ UNCHANGED loc
       ELSE /\ pc' = "catch"
            /\ loc' = [loc EXCEPT !.err = IF o = "throw" THEN "upload rejected"
                                          ELSE "Failed to upload to storage"]
  /\ UNCHANGED <<route, req, resp, db, stats, stats0, nreq>>

MP3_Insert(o) ==
  /\ route = "mp3" /\ pc = "insert"
  /\ LET row == Row("tiktok_mp3s", loc.id, req.url, NoPath, loc.mp3FileName, NoPath, NoPath,
                    Null, Null, NullStr, Null) IN
     /\ hist' = Append(hist, Event("insert", InsertOutcome(row, o)))
     /\ db' = Insert(row, o)
  /\ IF o = "throw"
       THEN pc' = "catch" /\ loc' = [loc EXCEPT !.err = "insert rejected"]
       ELSE pc' = "finish" /\ UNCHANGED loc
  /\ UNCHANGED <<route, req, resp, storage, stats, stats0, nreq>>

MP3_Finish(o1, o2) ==
  /\ route = "mp3" /\ pc = "finish"
  /\ stats' = IF o1 = "ok" THEN incrementStat("total_success") ELSE stats
  /\ IF o1 = "ok" /\ o2 = "ok"
       THEN /\ pc' = "done"
            /\ hist' = Append(hist, Event("respond", "200"))
            /\ UNCHANGED loc
            /\ resp' = IF instantAppearance(req.flag) THEN BytesResponse(loc.id, loc.buffer)
                       ELSE SuccessJson(loc.id, {"id", "tiktok_url", "result_url"})
       ELSE /\ pc' = "catch"
            /\ loc' = [loc EXCEPT !.err = IF o1 = "ok" THEN "logApiRequest rejected"
                                          ELSE "incrementStat rejected"]
            /\ UNCHANGED <<hist, resp>>
  /\ UNCHANGED <<route, req, storage, db, stats0, nreq>>

MP3_Catch(o1, o2) == route = "mp3" /\ CatchBlock(o1, o2)

\* ---------------------------------------------------- YouTube downloader
IdLen == 11
IdChars == {"a", "b", "c", "d", "e", "f", "g", "h", "i", "j", "k", "l", "m", "n", "o", "p", "q", "r", "s", "t", "u", "v", "w", "x", "y", "z", "A", "B", "C", "D", "E", "F", "G", "H", "I", "J", "K", "L", "M", "N", "O", "P", "Q", "R", "S", "T", "U", "V", "W", "X", "Y", "Z", "0", "1", "2", "3", "4", "5", "6", "7", "8", "9", "_", "-"}
WatchPrefix == <<"y", "o", "u", "t", "u", "b", "e", ".", "c", "o", "m", "/", "w", "a", "t", "c", "h", "?", "v", "=">>
ShortPrefix == <<"y", "o", "u", "t", "u", ".", "b", "e", "/">>
EmbedPrefix == <<"y", "o", "u", "t", "u", "b", "e", ".", "c", "o", "m", "/", "e", "m", "b", "e", "d", "/">>
VPrefix == <<"y", "o", "u", "t", "u", "b", "e", ".", "c", "o", "m", "/", "v", "/">>
ShortsPrefix == <<"y", "o", "u", "t", "u", "b", "e", ".", "c", "o", "m", "/", "s", "h", "o", "r", "t", "s", "/">>
\* The alternatives of the first pattern, in the order the pattern lists them.
UrlPrefixes == <<WatchPrefix, ShortPrefix, EmbedPrefix, VPrefix, ShortsPrefix>>

\* Sample request URLs.
WatchUrl == <<"h", "t", "t", "p", "s", ":", "/", "/", "w", "w", "w", ".", "y", "o", "u", "t", "u", "b", "e", ".", "c", "o", "m", "/", "w", "a", "t", "c", "h", "?", "v", "=", "d", "Q", "w", "4", "w", "9", "W", "g", "X", "c", "Q">>
ShortUrl == <<"h", "t", "t", "p", "s", ":", "/", "/", "y", "o", "u", "t", "u", ".", "b", "e", "/", "d", "Q", "w", "4", "w", "9", "W", "g", "X", "c", "Q">>
BadUrl == <<"h", "t", "t", "p", "s", ":", "/", "/", "v", "i", "m", "e", "o", ".", "c", "o", "m", "/", "1">>

\* The prefix p followed by IdLen identifier characters occurs in u at position i.
PrefixMatchAt(u, i, p) ==
  /\ i + Len(p) + IdLen - 1 <= Len(u)
  /\ SubSeq(u, i, i + Len(p) - 1) = p
  /\ \A k \in 0..(IdLen - 1) : u[i + Len(p) + k] \in IdChars

\* Variant: only the first pattern is tried.
extractVideoId_FirstPatternOnly(u) ==
  LET hits == {i \in 1..Len(u) : \E n \in 1..Len(UrlPrefixes) : PrefixMatchAt(u, i, UrlPrefixes[n])} IN
  IF hits # {}
    THEN LET i == CHOOSE x \in hits : \A y \in hits : x <= y
             n == CHOOSE x \in 1..Len(UrlPrefixes) :
                    /\ PrefixMatchAt(u, i, UrlPrefixes[x])
                    /\ \A y \in 1..(x - 1) : ~PrefixMatchAt(u, i, UrlPrefixes[y])
         IN SubSeq(u, i + Len(UrlPrefixes[n]), i + Len(UrlPrefixes[n]) + IdLen - 1)
  ELSE <<>>
\* extractVideoId: the capture of the first pattern at its leftmost match,
\* else the whole string when it is IdLen identifier characters, else <<>> (null).
extractVideoId(u) ==
  LET hits == {i \in 1..Len(u) : \E n \in 1..Len(UrlPrefixes) : PrefixMatchAt(u, i, UrlPrefixes[n])} IN
  IF hits # {}
    THEN LET i == CHOOSE x \in hits : \A y \in hits : x <= y
             n == CHOOSE x \in 1..Len(UrlPrefixes) :
                    /\ PrefixMatchAt(u, i, UrlPrefixes[x])
                    /\ \A y \in 1..(x - 1) : ~PrefixMatchAt(u, i, UrlPrefixes[y])
         IN SubSeq(u, i + Len(UrlPrefixes[n]), i + Len(UrlPrefixes[n]) + IdLen - 1)
  ELSE IF Len(u) = IdLen /\ \A k \in 1..Len(u) : u[k] \in IdChars THEN u
  ELSE <<>>

\* One iteration of downloadFromCobalt's loop on response r:
\* [ret |-> TRUE, url] when the function returns, [ret |-> FALSE] when it continues.
downloadFromCobaltStep(r) ==
  IF r.kind \in {"neterr", "badjson"} THEN [ret |-> FALSE, url |-> Null]
  ELSE IF r.kind = "notok" THEN [ret |-> FALSE, url |-> Null]
  ELSE IF r.status = "error" THEN [ret |-> FALSE, url |-> Null]
  ELSE IF r.status \in {"tunnel", "redirect", "stream"} THEN [ret |-> TRUE, url |-> r.url]
  ELSE IF Truthy(r.url) THEN [ret |-> TRUE, url |-> r.url]
  ELSE [ret |-> FALSE, url |-> Null]

\* Responses of the embed-info endpoint (oembed).
OembedResponses ==
  {[kind |-> k, title |-> Null, author_name |-> Null] : k \in {"neterr", "notok", "badjson"}}
  \cup
  {[kind |-> "json", title |-> "Title", author_name |-> "Channel"],
   [kind |-> "json", title |-> Null, author_name |-> "Channel"],
   [kind |-> "json", title |-> "", author_name |-> Null]}

\* Variant: the fields of the embed-info body are passed on without placeholders.
getVideoInfo_NoFallback(videoId, r) ==
  [title |-> r.title, author |-> r.author_name,
   thumbnail |-> <<"https://img.youtube.com/vi/">> \o videoId \o <<"/maxresdefault.jpg">>]
\* The triple getVideoInfo returns for videoId on response r.
getVideoInfo(videoId, r) ==
  LET thumbnail == <<"https://img.youtube.com/vi/">> \o videoId \o <<"/maxresdefault.jpg">> IN
  IF r.kind = "json"
    THEN [title |-> Or(r.title, "YouTube Video"), author |-> Or(r.author_name, "Unknown"),
          thumbnail |-> thumbnail]
    ELSE [title |-> "YouTube Video", author |-> "Unknown", thumbnail |-> thumbnail]

YT_Start(url, type) ==
  /\ Idle
  /\ nreq < MaxRequests
  /\ nreq' = nreq + 1
  /\ route' = "yt"
  /\ req' = Request(url, type, Null, 0)
  /\ loc' = InitLoc
  /\ hist' = <<>>
  /\ stats0' = stats
  /\ IF ~Present(url)
       THEN /\ resp' = ErrorJson(400, "Parameter 'youtube_url' is required")
            /\ pc' = "done"
       ELSE IF ~Truthy(type) \/ (type # "mp3" /\ type # "mp4")
       THEN /\ resp' = ErrorJson(400, "Parameter 'type' is required and must be 'mp3' or 'mp4'")
            /\ pc' = "done"
       ELSE IF extractVideoId(url) = <<>>
       THEN /\ resp' = ErrorJson(400, "Invalid YouTube URL")
            /\ pc' = "done"
       ELSE /\ resp' = NoResp
            /\ pc' = "hits"
  /\ UNCHANGED <<storage, db, stats>>

\* incrementStat("total_hits"), then both legs of Promise.all start: the first
\* relay request is sent, and getVideoInfo extracts the identifier (throwing
\* when there is none) and sends the embed-info request.
YT_Hits(o) ==
  /\ route = "yt" /\ pc = "hits"
  /\ IF o = "ok"
       THEN /\ stats' = incrementStat("total_hits")
            /\ UNCHANGED resp
            /\ LET videoId == extractVideoId(req.url) IN
               IF videoId = <<>>
                 THEN /\ pc' = "catch"
                      /\ loc' = [loc EXCEPT !.dl = "cobalt1", !.info = "rejected",
                                            !.err = "Invalid YouTube URL"]
                 ELSE /\ pc' = "resolve"
                      /\ loc' = [loc EXCEPT !.dl = "cobalt1", !.info = "pending",
                                            !.videoId = videoId]
       ELSE /\ resp' = UnhandledResponse
            /\ pc' = "done"
            /\ UNCHANGED <<stats, loc>>
  /\ UNCHANGED <<route, req, hist, storage, db, stats0, nreq>>

\* Variant: the download starts as soon as the relay leg has resolved.
YT_Cobalt_NoJoin(i, r) ==
  /\ route = "yt" /\ pc = "resolve"
  /\ loc.dl = (IF i = 1 THEN "cobalt1" ELSE "cobalt2")
  /\ LET s == downloadFromCobaltStep(r) IN
     /\ hist' = Append(hist, Event(CobaltUrl(i), IF s.ret THEN "found" ELSE "null"))
     /\ IF s.ret
          THEN /\ loc' = [loc EXCEPT !.dl = "resolved", !.downloadUrl = s.url]
               /\ pc' = "download"
          ELSE IF i < CobaltInstances
          THEN /\ loc' = [loc EXCEPT !.dl = "cobalt2"]
               /\ pc' = "resolve"
          ELSE /\ loc' = [loc EXCEPT !.dl = "rejected",
                            !.err = "YouTube download tidak tersedia saat ini. Silakan coba lagi nanti."]
               /\ pc' = "catch"
  /\ UNCHANGED <<route, req, resp, storage, db, stats, stats0, nreq>>
\* A relay instance answers.  Promise.all rejects as soon as this leg throws
\* and resolves once both legs have resolved.
YT_Cobalt(i, r) ==
  /\ route = "yt" /\ pc = "resolve"
  /\ loc.dl = (IF i = 1 THEN "cobalt1" ELSE "cobalt2")
  /\ LET s == downloadFromCobaltStep(r) IN
     /\ hist' = Append(hist, Event(CobaltUrl(i), IF s.ret THEN "found" ELSE "null"))
     /\ IF s.ret
          THEN /\ loc' = [loc EXCEPT !.dl = "resolved", !.downloadUrl = s.url]
               /\ pc' = IF loc.info = "resolved" THEN "download" ELSE "resolve"
          ELSE IF i < CobaltInstances
          THEN /\ loc' = [loc EXCEPT !.dl = "cobalt2"]
               /\ pc' = "resolve"
          ELSE /\ loc' = [loc EXCEPT !.dl = "rejected",
                            !.err = "YouTube download tidak tersedia saat ini. Silakan coba lagi nanti."]
               /\ pc' = "catch"
  /\ UNCHANGED <<route, req, resp, storage, db, stats, stats0, nreq>>

\* The embed-info endpoint answers.  After Promise.all has rejected the leg
\* still runs to its end, its result unused.
YT_Info(r) ==
  /\ route = "yt" /\ pc \in {"resolve", "catch"}
  /\ loc.info = "pending"
  /\ LET v == getVideoInfo(loc.videoId, r) IN
     /\ hist' = Append(hist, Event("info", r.kind))
     /\ loc' = [loc EXCEPT !.info = "resolved", !.title = v.title, !.author = v.author,
                           !.thumbnail = v.thumbnail]
     /\ pc' = IF pc = "resolve" /\ loc.dl = "resolved" THEN "download" ELSE pc
  /\ UNCHANGED <<route, req, resp, storage, db, stats, stats0, nreq>>

\* fetch(downloadResult.url): a url that is not a string cannot be parsed and
\* the call rejects.
YT_Download(o) ==
  /\ route = "yt" /\ pc = "download"
  /\ LET res == IF Truthy(loc.downloadUrl) THEN o ELSE "neterr" IN
     /\ hist' = Append(hist, Event("download", res))
     /\ IF res = "ok"
          THEN /\ loc' = [loc EXCEPT !.buffer = loc.downloadUrl, !.id = nreq,
                            !.mp4FileName = IF req.type = "mp4" THEN FileName(nreq, ".mp4") ELSE NoPath,
                            !.mp3FileName = IF req.type = "mp3" THEN FileName(nreq, ".mp3") ELSE NoPath]
               /\ pc' = "upload"
          ELSE /\ loc' = [loc EXCEPT !.err = IF res = "neterr" THEN "fetch failed"
                                             ELSE "Failed to fetch media"]
               /\ pc' = "catch"
  /\ UNCHANGED <<route, req, resp, storage, db, stats, stats0, nreq>>

YT_Upload(o) ==
  /\ route = "yt" /\ pc = "upload"
  /\ LET fileName == IF req.type = "mp3" THEN loc.mp3FileName ELSE loc.mp4FileName IN
     /\ hist' = Append(hist, Event("upload", o))
     /\ storage' = IF o = "ok" THEN storage \cup {[bucket |-> "yt-downloads", path |-> fileName]}
                   ELSE storage
  /\ IF o = "ok"
       THEN pc' = "insert" /\ UNCHANGED loc
       ELSE /\ pc' = "catch"
            /\ loc' = [loc EXCEPT !.err = IF o = "throw" THEN "upload rejected"
                                          ELSE "Failed to upload to storage"]
  /\ UNCHANGED <<route, req, resp, db, stats, stats0, nreq>>

\* Insert into yt_downloads; dbError is thrown.
YT_Insert(o) ==
  /\ route = "yt" /\ pc = "insert"
  /\ LET row == Row("yt_downloads", loc.id, req.url, loc.mp4FileName, loc.mp3FileName,
                    NoPath, NoPath, loc.title, loc.author, loc.thumbnail, req.type) IN
     /\ hist' = Append(hist, Event("insert", InsertOutcome(row, o)))
     /\ db' = Insert(row, o)
     /\ IF InsertOutcome(row, o) = "ok"
          THEN pc' = "finish" /\ UNCHANGED loc
          ELSE /\ pc' = "catch"
               /\ loc' = [loc EXCEPT !.err = IF o = "throw" THEN "insert rejected"
                                             ELSE "Failed to save metadata"]
  /\ UNCHANGED <<route, req, resp, storage, stats, stats0, nreq>>

YT_Finish(o1, o2) ==
  /\ route = "yt" /\ pc = "finish"
  /\ stats' = IF o1 = "ok" THEN incrementStat("total_success") ELSE stats
  /\ IF o1 = "ok" /\ o2 = "ok"
       THEN /\ pc' = "done"
            /\ hist' = Append(hist, Event("respond", "200"))
            /\ UNCHANGED loc
            /\ resp' = IF req.type = "mp4" THEN BytesResponse(loc.id, loc.buffer)
                       ELSE SuccessJson(loc.id, {"id", "youtube_url", "title", "author",
                                                 "thumbnail", "type", "result_url"})
       ELSE /\ pc' = "catch"
            /\ loc' = [loc EXCEPT !.err = IF o1 = "ok" THEN "logApiRequest rejected"
                                          ELSE "incrementStat rejected"]
            /\ UNCHANGED <<hist, resp>>
  /\ UNCHANGED <<route, req, storage, db, stats0, nreq>>

YT_Catch(o1, o2) == route = "yt" /\ CatchBlock(o1, o2)

\* -------------------------------------------------- YouTube result lookup
\* JavaScript `a || b` on path columns.
OrPath(a, b) == IF a # NoPath THEN a ELSE b

\* select("*").eq("id", id).single() under outcome o: the row found, if any.
SelectRows(table, id) == {x \in db : x.table = table /\ x.id = id}

\* The whole handler: it only reads.  o is the outcome of the select: "ok"
\* (the datastore answered: the row, or the no-row error of single()),
\* "error" (another datastore error is returned) or "throw".
Lookup(id, o) ==
  /\ Idle
  /\ route' = "lookup"
  /\ pc' = "done"
  /\ req' = Request(NullStr, Null, Null, id)
  /\ loc' = InitLoc
  /\ stats0' = stats
  /\ LET rows == SelectRows("yt_downloads", id)
         metaError == o = "error" \/ (o = "ok" /\ rows = {})
     IN
     /\ hist' = <<Event("select", IF o = "ok" /\ rows = {} THEN "norow" ELSE o)>>
     /\ resp' =
          IF o = "throw" THEN ErrorJson(500, "Internal server error")
          ELSE IF metaError THEN ErrorJson(404, "Download not found")
          ELSE LET meta == CHOOSE x \in rows : TRUE
                   filePath == OrPath(meta.mp3_path, meta.mp4_path)
               IN IF filePath = NoPath THEN ErrorJson(404, "File not found")
                  ELSE SuccessJson(meta.id, {"id", "youtube_url", "title", "author",
                                             "thumbnail_url", "type", "mp3_url"})
  /\ UNCHANGED <<storage, db, stats, nreq>>

\* --------------------------------------------------------- image generator
\* errorRedirect(req, code, message): a redirect to the error page, which is
\* given the code and the message.
errorRedirect(code, msg) ==
  [kind |-> "redirect", status |-> 307, ok |-> FALSE, error |-> msg, id |-> 0,
   keys |-> {"code", "message"}, bytes |-> Null, code |-> code]

\* Outcomes of generateFromFlux: an image body, a JSON body naming an image
\* that downloads, or one of its failures.
FluxOutcomes == {"image", "json_image", "notok", "json_download_failed", "json_invalid",
                 "not_image", "neterr"}
generateFromFluxError(o) ==
  IF o = "notok" THEN "Failed to generate image from Flux API"
  ELSE IF o = "json_download_failed" THEN "Failed to download generated image"
  ELSE IF o = "json_invalid" THEN "Invalid response from Flux API"
  ELSE IF o = "not_image" THEN "Flux API did not return an image"
  ELSE IF o = "neterr" THEN "fetch failed"
  ELSE Null

ImagePath(id) == <<"imagen-3.5-pro/", id, ".png">>

IMG_Start(prompt) ==
  /\ Idle
  /\ nreq < MaxRequests
  /\ nreq' = nreq + 1
  /\ route' = "img"
  /\ req' = Request(prompt, Null, Null, 0)
  /\ loc' = InitLoc
  /\ hist' = <<>>
  /\ stats0' = stats
  /\ IF ~Present(prompt)
       THEN /\ resp' = errorRedirect(400, "Parameter 'prompt' is required")
            /\ pc' = "done"
       ELSE /\ resp' = NoResp
            /\ pc' = "hits"
  /\ UNCHANGED <<storage, db, stats>>

IMG_Hits(o) ==
  /\ route = "img" /\ pc = "hits"
  /\ IF o = "ok"
       THEN /\ stats' = incrementStat("total_requests")
            /\ pc' = "generate"
            /\ UNCHANGED resp
       ELSE /\ resp' = UnhandledResponse
            /\ pc' = "done"
            /\ UNCHANGED stats
  /\ UNCHANGED <<route, req, loc, hist, storage, db, stats0, nreq>>

IMG_Generate(o) ==
  /\ route = "img" /\ pc = "generate"
  /\ hist' = Append(hist, Event("generate", o))
  /\ loc' = [loc EXCEPT !.err = generateFromFluxError(o)]
  /\ pc' = IF generateFromFluxError(o) = Null THEN "watermark" ELSE "catch"
  /\ UNCHANGED <<route, req, resp, storage, db, stats, stats0, nreq>>

\* The watermark download and the compositing (o = "sharp": the compositing
\* library throws), then the random identifier h.
IMG_Watermark(o, h) ==
  /\ route = "img" /\ pc = "watermark"
  /\ hist' = Append(hist, Event("watermark", o))
  /\ IF o = "ok"
       THEN /\ loc' = [loc EXCEPT !.buffer = "png", !.id = h]
            /\ pc' = "upload"
       ELSE /\ loc' = [loc EXCEPT !.err = IF o = "notok" THEN "Failed to download watermark image"
                                          ELSE IF o = "sharp" THEN "sharp failed"
                                          ELSE "fetch failed"]
            /\ pc' = "catch"
  /\ UNCHANGED <<route, req, resp, storage, db, stats, stats0, nreq>>

IMG_Upload(o) ==
  /\ route = "img" /\ pc = "upload"
  /\ hist' = Append(hist, Event("upload", o))
  /\ storage' = IF o = "ok" THEN storage \cup {[bucket |-> "ai-images", path |-> ImagePath(loc.id)]}
                ELSE storage
  /\ IF o = "ok"
       THEN pc' = "insert" /\ UNCHANGED loc
       ELSE /\ pc' = "catch"
            /\ loc' = [loc EXCEPT !.err = IF o = "throw" THEN "upload rejected"
                                          ELSE "storage error"]
  /\ UNCHANGED <<route, req, resp, db, stats, stats0, nreq>>

IMG_Insert(o) ==
  /\ route = "img" /\ pc = "insert"
  /\ LET row == [Row("ai_images", loc.id, NullStr, NoPath, NoPath, NoPath, ImagePath(loc.id),
                     Null, Null, NullStr, Null) EXCEPT !.prompt = req.url] IN
     /\ hist' = Append(hist, Event("insert", InsertOutcome(row, o)))
     /\ db' = Insert(row, o)
     /\ IF InsertOutcome(row, o) = "ok"
          THEN pc' = "finish" /\ UNCHANGED loc
          ELSE /\ pc' = "catch"
               /\ loc' = [loc EXCEPT !.err = IF o = "throw" THEN "insert rejected"
                                             ELSE "datastore error"]
  /\ UNCHANGED <<route, req, resp, storage, stats, stats0, nreq>>

IMG_Finish(o1, o2) ==
  /\ route = "img" /\ pc = "finish"
  /\ stats' = IF o1 = "ok" THEN incrementStat("total_success") ELSE stats
  /\ IF o1 = "ok" /\ o2 = "ok"
       THEN /\ pc' = "done"
            /\ hist' = Append(hist, Event("respond", "200"))
            /\ UNCHANGED loc
            /\ resp' = BytesResponse(loc.id, loc.buffer)
       ELSE /\ pc' = "catch"
            /\ loc' = [loc EXCEPT !.err = IF o1 = "ok" THEN "logApiRequest rejected"
                                          ELSE "incrementStat rejected"]
            /\ UNCHANGED <<hist, resp>>
  /\ UNCHANGED <<route, req, storage, db, stats0, nreq>>

IMG_Catch(o1, o2) ==
  /\ route = "img" /\ pc = "catch"
  /\ pc' = "done"
  /\ stats' = IF o1 = "ok" THEN incrementStat("total_errors") ELSE stats
  /\ resp' = IF o1 = "ok" /\ o2 = "ok" THEN errorRedirect(500, loc.err) ELSE UnhandledResponse
  /\ hist' = Append(hist, Event("respond", "500"))
  /\ UNCHANGED <<route, req, loc, storage, db, stats0, nreq>>

PromptStr == <<"c", "a", "t">>

Next ==
  \/ \E url \in {NullStr, EmptyStr, TikTokUrl}, type \in {Null, "", "mp3", "mp4", "avi"},
        a \in {Null, "false", "true"} : TT_Start(url, type, a)
  \/ \E o \in StatOutcomes : TT_Hits(o)
  \/ \E r \in TikwmResponses : TT_Tikwm(r)
  \/ \E i \in 1..CobaltInstances : \E r \in CobaltResponses(i) : TT_Cobalt(i, r)
  \/ \E o \in FetchOutcomes : TT_Download(o)
  \/ \E o \in StoreOutcomes : TT_Upload(o)
  \/ \E o \in FetchOutcomes : TT_ThumbFetch(o)
  \/ \E o \in StoreOutcomes : TT_ThumbUpload(o)
  \/ \E o \in StoreOutcomes : TT_Insert(o)
  \/ \E o1, o2 \in StatOutcomes : TT_Finish(o1, o2)
  \/ \E o1, o2 \in StatOutcomes : TT_Catch(o1, o2)
  \/ \E url \in {NullStr, EmptyStr, TikTokUrl}, a \in {Null, "true"} : MP3_Start(url, a)
  \/ \E o \in StatOutcomes : MP3_Hits(o)
  \/ \E r \in TikwmResponses : MP3_Tikwm(r)
  \/ \E i \in 1..CobaltInstances : \E r \in CobaltResponses(i) : MP3_Cobalt(i, r)
  \/ \E o \in FetchOutcomes : MP3_Download(o)
  \/ \E o \in StoreOutcomes : MP3_Upload(o)
  \/ \E o \in StoreOutcomes : MP3_Insert(o)
  \/ \E o1, o2 \in StatOutcomes : MP3_Finish(o1, o2)
  \/ \E o1, o2 \in StatOutcomes : MP3_Catch(o1, o2)
  \/ \E url \in {NullStr, EmptyStr, ShortUrl, BadUrl},
        type \in {Null, "", "mp3", "mp4", "avi"} : YT_Start(url, type)
  \/ \E o \in StatOutcomes : YT_Hits(o)
  \/ \E i \in 1..CobaltInstances : \E r \in CobaltResponses(i) : YT_Cobalt(i, r)
  \/ \E r \in OembedResponses : YT_Info(r)
  \/ \E o \in FetchOutcomes : YT_Download(o)
  \/ \E o \in StoreOutcomes : YT_Upload(o)
  \/ \E o \in StoreOutcomes : YT_Insert(o)
  \/ \E o1, o2 \in StatOutcomes : YT_Finish(o1, o2)
  \/ \E o1, o2 \in StatOutcomes : YT_Catch(o1, o2)
  \/ \E id \in 1..(MaxRequests + 1), o \in StoreOutcomes : Lookup(id, o)
  \/ \E prompt \in {NullStr, EmptyStr, PromptStr} : IMG_Start(prompt)
  \/ \E o \in StatOutcomes : IMG_Hits(o)
  \/ \E o \in FluxOutcomes : IMG_Generate(o)
  \/ \E o \in {"ok", "notok", "neterr", "sharp"}, h \in 1..HexIdSpace : IMG_Watermark(o, h)
  \/ \E o \in StoreOutcomes : IMG_Upload(o)
  \/ \E o \in StoreOutcomes : IMG_Insert(o)
  \/ \E o1, o2 \in StatOutcomes : IMG_Finish(o1, o2)
  \/ \E o1, o2 \in StatOutcomes : IMG_Catch(o1, o2)
  \/ Return

Spec == Init /\ [][Next]_vars

\* ------------------------------------ identifier extraction on URL shapes
\* Request URLs built shape by shape: a scheme, the text the pattern looks
\* for, an identifier, and what follows it.
Schemes == {<<"h", "t", "t", "p", "s", ":", "/", "/">>, <<"h", "t", "t", "p", "s", ":", "/", "/", "w", "w", "w", ".">>}
Suffixes == {<<>>, <<"&", "t", "=", "4", "2">>}
SampleIds == {<<"d", "Q", "w", "4", "w", "9", "W", "g", "X", "c", "Q">>, <<"a", "_", "b", "-", "c", "_", "d", "-", "e", "_", "0">>}
ShapePrefix(s) ==
  IF s = "watch" THEN WatchPrefix
  ELSE IF s = "short" THEN ShortPrefix
  ELSE IF s = "embed" THEN EmbedPrefix
  ELSE IF s = "v" THEN VPrefix
  ELSE ShortsPrefix
ShapedInputs ==
  {[shape |-> s, id |-> id, url |-> sch \o ShapePrefix(s) \o id \o suf] :
     s \in {"watch", "short", "embed", "v", "shorts"}, id \in SampleIds,
     sch \in Schemes, suf \in Suffixes}
  \cup {[shape |-> "bare", id |-> id, url |-> id] : id \in SampleIds}
\* Inputs of no shape: another site, identifiers too short, too long or with a
\* character outside the class, a watch URL whose first parameter is not v,
\* a playlist URL, a short link with a 10-character tail.
ShapelessUrls ==
  {BadUrl,
   <<"d", "Q", "w", "4", "w", "9", "W", "g", "X", "c">>,
   <<"d", "Q", "w", "4", "w", "9", "W", "g", "X", "c", "Q", "Q">>,
   <<"d", "Q", "w", "4", "w", "9", "!", "g", "X", "c", "Q">>,
   <<"h", "t", "t", "p", "s", ":", "/", "/", "w", "w", "w", ".", "y", "o", "u", "t", "u", "b", "e", ".", "c", "o", "m", "/", "w", "a", "t", "c", "h", "?", "f", "e", "a", "t", "u", "r", "e", "=", "s", "h", "a", "r", "e", "&", "v", "=", "d", "Q", "w", "4", "w", "9", "W", "g", "X", "c", "Q">>,
   <<"h", "t", "t", "p", "s", ":", "/", "/", "w", "w", "w", ".", "y", "o", "u", "t", "u", "b", "e", ".", "c", "o", "m", "/", "p", "l", "a", "y", "l", "i", "s", "t", "?", "l", "i", "s", "t", "=", "d", "Q", "w", "4", "w", "9", "W", "g", "X", "c", "Q">>,
   <<"h", "t", "t", "p", "s", ":", "/", "/", "y", "o", "u", "t", "u", ".", "b", "e", "/", "d", "Q", "w", "4", "w", "9", "W", "g", "X", "c">>,
   <<"h", "t", "t", "p", "s", ":", "/", "/", "w", "w", "w", ".", "y", "o", "u", "t", "u", "b", "e", ".", "c", "o", "m", "/", "w", "a", "t", "c", "h", "?", "v", "=", "d", "Q", "w", "4", ".", "9", "W", "g", "X", "c", "Q">>}
ShapelessInputs == {[shape |-> "none", id |-> <<>>, url |-> u] : u \in ShapelessUrls}
IdInputs == ShapedInputs \cup ShapelessInputs

\* The YouTube route up to the start of Promise.all, on those inputs: GET's
\* validation calls extractVideoId, and getVideoInfo calls it again.
NextId ==
  \/ \E in \in IdInputs, type \in {Null, "mp3", "mp4"} : YT_Start(in.url, type)
  \/ \E o \in StatOutcomes : YT_Hits(o)
  \/ Return

SpecId == Init /\ [][NextId]_vars

\* ====================================================================
\* Properties
\* ====================================================================
ProviderSteps == {"tikwm", "cobalt1", "cobalt2"}
\* The providers the current request has queried, in order, with their results.
Queried == SelectSeq(hist, LAMBDA e : e.step \in ProviderSteps)
\* The provider chain of the current route.
Chain == IF route = "yt" THEN <<"cobalt1", "cobalt2">> ELSE <<"tikwm", "cobalt1", "cobalt2">>
Did(step) == \E i \in DOMAIN hist : hist[i].step = step
DidWith(step, res) == \E i \in DOMAIN hist : hist[i].step = step /\ hist[i].res = res
Downloader == route \in {"tt", "mp3", "yt"}
AllProvidersFailed ==
  /\ Downloader
  /\ Len(Queried) = Len(Chain)
  /\ \A i \in DOMAIN Queried : Queried[i].res = "null"
\* The url the download step fetches.
FetchedUrl ==
  IF route = "yt" THEN loc.downloadUrl
  ELSE IF route = "mp3" \/ req.type = "mp3" THEN loc.musicUrl
  ELSE loc.videoUrl
UrlsOf(provider) ==
  IF provider = "tikwm" THEN {"hdplay", "play", "music", "music_info"}
  ELSE IF provider = "cobalt1" THEN {"cobalt1"}
  ELSE {"cobalt2"}

\* C1: in every downloader route, when every provider of the chain has failed
\* the request makes no storage upload and no metadata insert, it is on its
\* way to the error response, and the response it ends with has status 500.
C1_ExhaustionStoresNothing ==
  AllProvidersFailed =>
    /\ ~Did("upload") /\ ~Did("thumbupload") /\ ~Did("insert")
    /\ pc \in {"catch", "done"}
    /\ pc = "done" => resp.status = 500
C1_Witness ==
  /\ route = "tt" /\ pc = "done" /\ AllProvidersFailed
  /\ resp.status = 500 /\ resp.kind = "json"

\* C2 (as claimed): the TikTok mp3/mp4 route ends with 'No video URL found from
\* any provider' / 'No music URL found from any provider' only when the primary
\* extractor and both relay instances were queried and none gave a URL of the
\* requested kind.
C2_HardFailureOnlyAfterAllProviders ==
  (/\ route = "tt"
   /\ loc.err \in {"No video URL found from any provider",
                   "No music URL found from any provider"})
    => /\ Len(Queried) = Len(Chain)
       /\ \A i \in DOMAIN Queried : Queried[i].step = Chain[i]

\* C3: the providers are queried in the order of the chain, each at most once
\* and only after every earlier one failed; nothing is queried after a provider
\* gave a result, and a url that is downloaded comes from the last provider
\* queried.
C3_ProviderOrder ==
  Downloader =>
    /\ Len(Queried) <= Len(Chain)
    /\ \A i \in DOMAIN Queried : Queried[i].step = Chain[i]
    /\ \A i \in DOMAIN Queried : i < Len(Queried) => Queried[i].res = "null"
    /\ (Did("download") /\ Truthy(FetchedUrl)) =>
         /\ Queried # <<>>
         /\ Queried[Len(Queried)].res = "found"
         /\ FetchedUrl \in UrlsOf(Queried[Len(Queried)].step)
C3_Witness ==
  /\ route = "tt" /\ pc = "done" /\ resp.status = 200
  /\ Len(Queried) = 3 /\ Queried[3].res = "found"
  /\ loc.buffer = "cobalt2"

\* C4 (as claimed): the url handed to the download step is never null: a relay
\* response without a media url is a soft failure, in the YouTube relay loop too.
C4_ResolvedUrlIsUsable ==
  (Downloader /\ pc = "download") => Truthy(FetchedUrl)

\* C5: every record of a typed downloader table has exactly one of mp4_path and
\* mp3_path set, to '{id}.mp4' resp. '{id}.mp3' for the record's own id, and the
\* record a request has just inserted has the path of the requested type.
TypedTable == IF route = "yt" THEN "yt_downloads" ELSE "tiktok_downloads"
C5_ExactlyOnePath ==
  /\ \A x \in db : x.table \in {"tiktok_downloads", "yt_downloads"} =>
       /\ (x.mp4_path = NoPath) # (x.mp3_path = NoPath)
       /\ x.mp4_path # NoPath => x.mp4_path = <<x.id, ".mp4">>
       /\ x.mp3_path # NoPath => x.mp3_path = <<x.id, ".mp3">>
  /\ (route \in {"tt", "yt"} /\ DidWith("insert", "ok")) =>
       \E x \in db :
         /\ x.table = TypedTable /\ x.id = loc.id
         /\ (x.mp4_path # NoPath) = (req.type = "mp4")
         /\ (x.mp3_path # NoPath) = (req.type = "mp3")
C5_Witness ==
  /\ route = "tt" /\ pc = "done" /\ req.type = "mp3" /\ resp.status = 200
  /\ DidWith("insert", "ok")
  /\ \E x \in db : x.table = "tiktok_downloads" /\ x.id = loc.id /\ x.mp3_path = <<loc.id, ".mp3">>

MissingStr(s) == s = NullStr \/ s = EmptyStr
MissingType == req.type \in {Null, ""}
\* A required parameter of the current request is missing.
MissingParam ==
  \/ route \in {"tt", "yt"} /\ (MissingStr(req.url) \/ MissingType)
  \/ route \in {"mp3", "img"} /\ MissingStr(req.url)
\* The response's error string names a parameter that is missing.
NamesMissing ==
  \/ /\ MissingStr(req.url)
     /\ resp.error = (IF route = "yt" THEN "Parameter 'youtube_url' is required"
                      ELSE IF route = "img" THEN "Parameter 'prompt' is required"
                      ELSE "Parameter 'tiktokvid_url' is required")
  \/ /\ route \in {"tt", "yt"} /\ MissingType
     /\ resp.error = "Parameter 'type' is required and must be 'mp3' or 'mp4'"

\* C6 (as claimed): on every endpoint a request with a required parameter
\* missing is answered with status 400 and an error naming the parameter.
C6_MissingParamIs400 ==
  (pc = "done" /\ MissingParam) => (resp.status = 400 /\ NamesMissing)
\* C6 (amended): a request with a required parameter missing goes no further
\* than validation; on the downloader endpoints it is answered with status 400
\* and a JSON error envelope naming the parameter, and on the image generator
\* with a redirect to the error page that carries the code 400 and the message
\* naming the parameter.
C6_MissingParamRejected ==
  (route # "none" /\ MissingParam) =>
    /\ pc = "done"
    /\ hist = <<>>
    /\ NamesMissing
    /\ Downloader => (resp.kind = "json" /\ resp.status = 400 /\ ~resp.ok)
    /\ route = "img" => (resp.kind = "redirect" /\ resp.status # 400 /\ resp.code = 400)
C6_Witness ==
  /\ route = "yt" /\ pc = "done" /\ MissingType /\ ~MissingStr(req.url)
  /\ resp.status = 400

C8_LookupErrorMapping ==
  (route = "lookup" /\ pc = "done") =>
    LET rows == SelectRows("yt_downloads", req.id) IN
    /\ DidWith("select", "norow") => (resp.status = 404 /\ resp.error = "Download not found")
    /\ (resp.status = 404 /\ resp.error = "Download not found") => rows = {}
    /\ (DidWith("select", "ok") /\ \A x \in rows : x.mp3_path = NoPath /\ x.mp4_path = NoPath)
         => (resp.status = 404 /\ resp.error = "File not found")
    /\ (rows # {} /\ (DidWith("select", "error") \/ DidWith("select", "throw")))
         => (resp.status = 500 /\ resp.error = "Internal server error")

\* C9: in a YouTube request getVideoInfo never throws; whatever the embed-info
\* call did, it gave a title, an author and the thumbnail of the identifier,
\* and the request never fails with the error of metadata enrichment.
C9_InfoNeverRaises ==
  route = "yt" =>
    /\ loc.info # "rejected"
    /\ loc.err # "Invalid YouTube URL"
    /\ Did("info") =>
         /\ loc.info = "resolved"
         /\ Truthy(loc.title) /\ Truthy(loc.author)
         /\ loc.thumbnail = <<"https://img.youtube.com/vi/">> \o loc.videoId \o <<"/maxresdefault.jpg">>
         /\ Len(loc.videoId) = IdLen
C9_Witness ==
  /\ route = "yt" /\ pc = "done" /\ resp.status = 200
  /\ DidWith("info", "neterr")
  /\ loc.title = "YouTube Video" /\ loc.author = "Unknown"

StatCallsSucceeded ==
  /\ resp.kind # "unhandled"
  /\ loc.err \notin {"incrementStat rejected", "logApiRequest rejected"}
C11_On(in) == route = "yt" /\ pc # "idle" /\ req.url = in.url
C11_TypeOk == req.type \in {"mp3", "mp4"}
\* What extraction and the route do on the inputs whose shape is in shapes,
\* and on all the others.
C11_Extraction(shapes) ==
  \A in \in IdInputs : C11_On(in) =>
    IF in.shape \in shapes
      THEN /\ extractVideoId(req.url) = in.id
           /\ Len(extractVideoId(req.url)) = IdLen
           /\ resp.error # "Invalid YouTube URL"
           /\ pc = "resolve" => loc.videoId = in.id
           /\ \A other \in IdInputs :
                (other.shape \in shapes /\ other.id = in.id)
                  => extractVideoId(other.url) = extractVideoId(req.url)
      ELSE /\ extractVideoId(req.url) = <<>>
           /\ C11_TypeOk => (pc = "done" /\ resp = ErrorJson(400, "Invalid YouTube URL"))

\* C11 (as claimed): on a watch, short-link, embed or shorts URL or a bare
\* identifier, extraction returns the 11-character identifier of the URL (the
\* same for every form of one video); on every other input it returns no
\* identifier and the YouTube route answers 400 'Invalid YouTube URL'.
C11_FiveShapes == C11_Extraction({"watch", "short", "embed", "shorts", "bare"})

\* C11 (amended): the same with the youtube.com/v/ form among the shapes that
\* yield an identifier.
C11_SixShapes == C11_Extraction({"watch", "short", "embed", "v", "shorts", "bare"})
C11_Witness ==
  /\ route = "yt" /\ pc = "resolve"
  /\ \E in \in IdInputs : in.shape = "watch" /\ req.url = in.url /\ loc.videoId = in.id
  /\ \E in \in IdInputs : in.shape = "short" /\ in.id = loc.videoId
                            /\ extractVideoId(in.url) = loc.videoId

\* How often the current request has made the step, and where it first did.
Count(step) == Cardinality({i \in DOMAIN hist : hist[i].step = step})
Pos(step) == CHOOSE i \in DOMAIN hist : hist[i].step = step

\* C12: in every downloader request each of download, upload, insert and the
\* response happens at most once and in that order after the provider queries:
\* the primary upload only after the media download returned a success status,
\* the insert only after the primary upload succeeded, the success response
\* only after the insert attempt, nothing after the response; a failed
\* download or a failed primary upload ends the request without an insert.
C12_StrictSequence ==
  Downloader =>
    /\ \A s \in {"download", "upload", "insert", "respond"} : Count(s) <= 1
    /\ Did("download") =>
         /\ Queried # <<>>
         /\ \A i \in DOMAIN hist : hist[i].step \in ProviderSteps => i < Pos("download")
    /\ Did("upload") => (DidWith("download", "ok") /\ Pos("download") < Pos("upload"))
    /\ Did("insert") => (DidWith("upload", "ok") /\ Pos("upload") < Pos("insert"))
    /\ DidWith("respond", "200") => (Did("insert") /\ Pos("insert") < Pos("respond"))
    /\ (pc = "done" /\ resp.status = 200) => DidWith("respond", "200")
    /\ Did("respond") => Pos("respond") = Len(hist)
    /\ ((Did("download") /\ ~DidWith("download", "ok"))
         \/ (Did("upload") /\ ~DidWith("upload", "ok")))
         => /\ ~Did("insert")
            /\ pc \in {"catch", "done"}
            /\ pc = "done" => resp.status = 500
C12_Witness ==
  /\ route = "mp3" /\ pc = "done" /\ resp.status = 500
  /\ DidWith("download", "ok") /\ DidWith("upload", "error") /\ ~Did("insert")
  /\ db = {}

\* The triples getVideoInfo can have returned for the current request, given
\* the kind of answer the embed-info endpoint gave.
C13_InfoOf ==
  {getVideoInfo(extractVideoId(req.url), r) :
     r \in {x \in OembedResponses : DidWith("info", x.kind)}}
\* The row and the success response the YouTube route builds from its locals.
C13_Row ==
  Row("yt_downloads", loc.id, req.url, loc.mp4FileName, loc.mp3FileName,
      NoPath, NoPath, loc.title, loc.author, loc.thumbnail, req.type)
C13_Response ==
  IF req.type = "mp4" THEN BytesResponse(loc.id, loc.downloadUrl)
  ELSE SuccessJson(loc.id, {"id", "youtube_url", "title", "author", "thumbnail",
                            "type", "result_url"})

\* C13: in the YouTube route the media download starts only after both the
\* relay resolution and the metadata enrichment have completed, in whichever
\* order; the locals, the persisted record and the response are then those
\* determined by the relay's answer and the embed-info answer alone, and a
\* request whose relay instances all failed ends with the same error whether
\* or not the enrichment had completed.
C13_JoinThenDownload ==
  route = "yt" =>
    /\ (pc \in {"download", "upload", "insert", "finish"} \/ Did("download")) =>
         /\ loc.dl = "resolved" /\ loc.info = "resolved"
         /\ Count("info") = 1
         /\ Queried # <<>> /\ Queried[Len(Queried)].res = "found"
         /\ [title |-> loc.title, author |-> loc.author, thumbnail |-> loc.thumbnail]
              \in C13_InfoOf
         /\ \E i \in 1..CobaltInstances : \E r \in CobaltResponses(i) :
              /\ Queried[Len(Queried)].step = CobaltUrl(i)
              /\ downloadFromCobaltStep(r).ret
              /\ loc.downloadUrl = downloadFromCobaltStep(r).url
         /\ Did("download") =>
              \A i \in DOMAIN hist :
                hist[i].step \in ProviderSteps \cup {"info"} => i < Pos("download")
    /\ DidWith("insert", "ok") => C13_Row \in db
    /\ (pc = "done" /\ resp.status = 200) => resp = C13_Response
    /\ (pc = "done" /\ AllProvidersFailed) =>
         resp \in {ErrorJson(500, "YouTube download tidak tersedia saat ini. Silakan coba lagi nanti."),
                   UnhandledResponse}
C13_Witness ==
  /\ route = "yt" /\ pc = "done" /\ resp.status = 200
  /\ hist[1].step = "info" /\ hist[2].step = "cobalt1" /\ hist[3].step = "cobalt2"
  /\ DidWith("insert", "ok") /\ C13_Row \in db

\* The success response of the TikTok mp3/mp4 route, from the request and the
\* primary media alone.
C14_Response ==
  IF autoShow(req.flag) /\ req.type = "mp4" THEN BytesResponse(loc.id, loc.buffer)
  ELSE IF req.type = "mp3"
    THEN SuccessJson(loc.id, {"id", "tiktok_url", "title", "author", "thumbnail",
                              "type", "result_url"})
  ELSE SuccessJson(loc.id, {"id", "tiktok_url", "title", "author", "thumbnail",
                            "video_url"})
C14_ThumbnailFailed ==
  \/ (Did("thumbfetch") /\ ~DidWith("thumbfetch", "ok"))
  \/ (Did("thumbupload") /\ ~DidWith("thumbupload", "ok"))

\* C14: in the TikTok mp3/mp4 route, after the thumbnail leg has failed (fetch
\* rejected, non-success status, upload error returned or thrown) the request
\* goes on to the metadata insert; it reaches the error path only for what
\* happens from the insert on, and its success response is the one built from
\* the request and the primary media, as when the thumbnail was stored.
C14_ThumbnailNeverAborts ==
  (route = "tt" /\ Did("thumbfetch")) =>
    /\ pc \in {"thumbupload", "insert", "finish", "catch", "done"}
    /\ pc = "thumbupload" => DidWith("thumbfetch", "ok")
    /\ pc \in {"finish", "catch", "done"} => Did("insert")
    /\ Did("insert") => Pos("thumbfetch") < Pos("insert")
    /\ (pc = "catch" \/ (pc = "done" /\ resp.status # 200)) =>
         loc.err \in {"insert rejected", "incrementStat rejected", "logApiRequest rejected"}
    /\ (pc = "done" /\ resp.status = 200) => resp = C14_Response
C14_Witness ==
  /\ route = "tt" /\ pc = "done" /\ resp.status = 200 /\ resp = C14_Response
  /\ DidWith("thumbupload", "throw") /\ C14_ThumbnailFailed
  /\ DidWith("insert", "ok")

\* The table the current downloader route inserts into.
C15_Table ==
  IF route = "yt" THEN "yt_downloads"
  ELSE IF route = "mp3" THEN "tiktok_mp3s" ELSE "tiktok_downloads"

\* C15 (as claimed): when a downloader route has answered with a JSON success
\* envelope that contains a result_url for an identifier, its table holds a
\* record with that identifier.
C15_ResultUrlHasRecord ==
  (/\ Downloader /\ pc = "done"
   /\ resp.kind = "json" /\ resp.ok /\ "result_url" \in resp.keys)
    => \E x \in db : x.table = C15_Table /\ x.id = resp.id

\* The bucket the route that writes the table uploads to.
C16_Bucket(table) ==
  IF table = "tiktok_downloads" THEN "tiktok-downloads"
  ELSE IF table = "tiktok_mp3s" THEN "tiktok-mp3s"
  ELSE IF table = "yt_downloads" THEN "yt-downloads"
  ELSE "ai-images"
C16_Stored(x, p) == p # NoPath => [bucket |-> C16_Bucket(x.table), path |-> p] \in storage

\* C16 (as claimed): every non-null path field of every persisted record
\* (mp4_path, mp3_path, thumbnail_path, image_path) names an object that an
\* upload has stored.
C16_PathsAreStored ==
  \A x \in db :
    /\ C16_Stored(x, x.mp4_path)
    /\ C16_Stored(x, x.mp3_path)
    /\ C16_Stored(x, x.thumbnail_path)
    /\ C16_Stored(x, x.image_path)

=============================================================================
